---- MODULE Spec2Model ----
\* Reservation engine of HomeStay_be: the booking controllers
\* (create / update / cancel / delete) over the Booking collection,
\* with the inventory-aware admission of createBooking and the single-room
\* existence check of BookingValidationService.checkBookingConflict; the
\* read-only availability probes (check-availability, check-dates, the
\* 30-day calendar); BookingPricingService; and the cached connection
\* attempt of the serverless entry (api/index.ts).
\*
\* Dates are calendar days (UTC midnight), numbered 0..MaxDay; the clock `now`
\* is in hours, day d starting at hour d * HoursPerDay.
EXTENDS Integers, FiniteSets, Sequences, TLC

VARIABLES bookings, nextId, now, inflight, resp, mail, db

vars == <<bookings, nextId, now, inflight, resp, mail, db>>

\* ---------------------------------------------------------------- bounds
MaxDay == 3
MaxBookings == 2
MaxTicks == 3
TickHours == 12
MaxAttempts == 3

HoursPerDay == 24
CancelCutoffHours == 24

Days == 0..MaxDay
BookingIds == 1..MaxBookings
Clients == {"c1", "c2"}

\* null / undefined: Null for a string or reference field, Absent for a date
\* or a number.
Null == "null"
Absent == -1
NoReq == [room |-> Null, checkIn |-> Absent, checkOut |-> Absent, numberOfRooms |-> Absent,
          guests |-> Absent, guestEmail |-> Null]
NoBooking == [status |-> "absent"]

\* The room catalog (Room collection): read-only to the booking engine.
RoomCatalog ==
  [deluxe |-> [name |-> "Deluxe", totalRooms |-> 2, isAvailable |-> TRUE, price |-> 3500,
               capacity |-> 6],
   single |-> [name |-> "Single", totalRooms |-> 1, isAvailable |-> TRUE, price |-> 2000,
               capacity |-> 3],
   closed |-> [name |-> "Closed", totalRooms |-> 1, isAvailable |-> FALSE, price |-> 1000,
               capacity |-> 3]]
RoomIds == DOMAIN RoomCatalog
RequestRoomIds == RoomIds \cup {"missing"}
BookableRoomIds == {r \in RoomIds : RoomCatalog[r].isAvailable}

\* Room counts a request may carry: up to the largest inventory of the catalog.
RoomCounts == 1..(CHOOSE m \in {RoomCatalog[r].totalRooms : r \in RoomIds} :
                   \A r \in RoomIds : RoomCatalog[r].totalRooms <= m)

Statuses == {"pending", "confirmed", "cancelled"}

\* ---------------------------------------------------------------- helpers
\* Sum, over the bookings with an id in S, of the rooms each holds on day d:
\* numberOfRooms || 1 on the days from its checkIn up to (not including) its
\* checkOut.
RECURSIVE SumFrom(_, _, _, _)
SumFrom(bks, S, d, i) ==
  IF i > MaxBookings THEN 0
  ELSE (IF i \in S /\ bks[i].checkIn <= d /\ d < bks[i].checkOut
          THEN (IF bks[i].numberOfRooms = 0 THEN 1 ELSE bks[i].numberOfRooms)
          ELSE 0)
       + SumFrom(bks, S, d, i + 1)

SumOver(bks, S, d) == SumFrom(bks, S, d, 1)

SetMax(S) == CHOOSE m \in S : \A x \in S : x <= m

Stored(bks) == {i \in BookingIds : bks[i] # NoBooking}

\* status: { $in: ['pending', 'confirmed'] }
IsActive(b) == b.status \in {"pending", "confirmed"}

\* ------------------------------------------- BookingValidationService
\* validateRoom: Room.findById, then the isAvailable flag.
ValidateRoom(roomId) ==
  IF roomId \notin RoomIds THEN [isValid |-> FALSE, statusCode |-> 404]
  ELSE IF ~RoomCatalog[roomId].isAvailable THEN [isValid |-> FALSE, statusCode |-> 400]
  ELSE [isValid |-> TRUE, statusCode |-> 200]

\* Mutant: the query finds something only when the bookings it matches are as
\* many as the rooms of the type.
ConflictQueryInventoryAware(bks, roomId, from, to, excludeId) ==
  LET S == {i \in Stored(bks) :
              /\ bks[i].room = roomId
              /\ IsActive(bks[i])
              /\ bks[i].checkIn < to
              /\ bks[i].checkOut > from
              /\ i # excludeId}
  IN  IF Cardinality(S) < RoomCatalog[roomId].totalRooms THEN {} ELSE S

\* The query of checkBookingConflict; excludeId = 0 stands for "no exclusion".
ConflictQuery(bks, roomId, from, to, excludeId) ==
  {i \in Stored(bks) :
      /\ bks[i].room = roomId
      /\ IsActive(bks[i])
      /\ bks[i].checkIn < to
      /\ bks[i].checkOut > from
      /\ i # excludeId}

\* checkBookingConflict: Booking.findOne(query) found something.
CheckBookingConflict(bks, roomId, from, to, excludeId) ==
  ConflictQuery(bks, roomId, from, to, excludeId) # {}

\* ------------------------------------------------------- createBooking
\* Mutant: the query without its date conditions (every pending/confirmed
\* booking of the room type is found).
ExistingBookingsAnyWindow(bks, roomId, from, to) ==
  {i \in Stored(bks) : bks[i].room = roomId /\ IsActive(bks[i])}

\* Mutant: the query with $lte / $gte (a booking that ends on the requested
\* check-in day, or starts on the requested check-out day, is found).
ExistingBookingsInclusive(bks, roomId, from, to) ==
  {i \in Stored(bks) :
      /\ bks[i].room = roomId
      /\ IsActive(bks[i])
      /\ bks[i].checkIn <= to
      /\ bks[i].checkOut >= from}

\* Booking.find({room, status in {pending, confirmed}, checkIn < checkOutDate,
\*               checkOut > checkInDate})
ExistingBookings(bks, roomId, from, to) ==
  {i \in Stored(bks) :
      /\ bks[i].room = roomId
      /\ IsActive(bks[i])
      /\ bks[i].checkIn < to
      /\ bks[i].checkOut > from}

\* The keys of bookingsPerDate: every day of every found booking, from its own
\* checkIn up to (not including) its own checkOut.
BookedDates(bks, S) ==
  UNION {bks[i].checkIn .. (bks[i].checkOut - 1) : i \in S}

\* Mutant: every found booking counts as one room, whatever its numberOfRooms.
BookingsPerDateOneEach(bks, S, d) ==
  Cardinality({i \in S : bks[i].checkIn <= d /\ d < bks[i].checkOut})

\* bookingsPerDate.get(d): the rooms (numberOfRooms || 1) of the found bookings
\* whose loop visits day d.
BookingsPerDate(bks, S, d) == SumOver(bks, S, d)

\* maxBookedRooms
MaxBookedRooms(bks, S) ==
  LET dates == BookedDates(bks, S)
  IN  IF dates = {} THEN 0
      ELSE SetMax({BookingsPerDate(bks, S, d) : d \in dates})

\* availableRooms = room.totalRooms - maxBookedRooms
AvailableRooms(bks, roomId, from, to) ==
  RoomCatalog[roomId].totalRooms
    - MaxBookedRooms(bks, ExistingBookings(bks, roomId, from, to))

\* Mutant: the test only asks whether any room is left.
AdmitsAnyRoomLeft(availableRooms, numberOfRooms) == ~(availableRooms < 1)

\* The admission test of createBooking: `availableRooms < numberOfRooms` rejects.
Admits(availableRooms, numberOfRooms) == ~(availableRooms < numberOfRooms)

\* What a handler answers: the HTTP status, the kind of failure, and for a
\* conflict the availableRooms and requestedRooms of the body.
NoResp == [op |-> "none", code |-> 0, error |-> Null,
           availableRooms |-> Absent, requestedRooms |-> Absent]

Response(op, code, error) ==
  [op |-> op, code |-> code, error |-> error,
   availableRooms |-> Absent, requestedRooms |-> Absent]

\* createBooking up to (not including) the write: the room lookup, the query of
\* the existing bookings, the per-date count and the decision. code 0 = go on
\* to BookingService.createBooking.
\* The requests of the model are those that pass the field, guest and
\* room-count validations that come before the room lookup and the query.
CreateAdmission(bks, req) ==
  LET rv == ValidateRoom(req.room)
  IN  IF ~rv.isValid
        THEN Response("create", rv.statusCode,
                      IF rv.statusCode = 404 THEN "not_found" ELSE "room_unavailable")
      ELSE
        LET availableRooms == AvailableRooms(bks, req.room, req.checkIn, req.checkOut)
        IN  IF ~Admits(availableRooms, req.numberOfRooms)
              THEN [op |-> "create", code |-> 400, error |-> "conflict",
                    availableRooms |-> availableRooms,
                    requestedRooms |-> req.numberOfRooms]
            ELSE Response("create", 0, Null)

\* ------------------------------------------- field and policy validation
\* Texts are sequences of characters (names, phone numbers) or of words
\* (special requests).
Digits == {"0", "1", "2", "3", "4", "5", "6", "7", "8", "9"}
PhoneDigits == 10
MaxSpecialRequestWords == 2
GuestsPerRoom == 3

\* validateGuestName: the name has no digit.
ValidateGuestName(guestName) ==
  \A i \in 1..Len(guestName) : guestName[i] \notin Digits

\* validatePhoneNumber: exactly ten digits.
ValidatePhoneNumber(guestPhone) ==
  /\ Len(guestPhone) = PhoneDigits
  /\ \A i \in 1..Len(guestPhone) : guestPhone[i] \in Digits

\* validateChildren: between 0 and the number of guests.
ValidateChildren(children, guests) == 0 <= children /\ children <= guests

\* validateSpecialRequests: at most MaxSpecialRequestWords words.
ValidateSpecialRequests(specialRequests) ==
  Len(specialRequests) <= MaxSpecialRequestWords

\* The per-type tables of the validator, keyed by the room's display name;
\* a name without an entry has no limit.
GuestCapacityPerType == [Deluxe |-> 6, Single |-> 3]
MaxRoomsPerType == [Deluxe |-> 2]

\* validateGuestCapacityByRoomType(guests, room.name)
ValidateGuestCapacityByRoomType(guests, roomName) ==
  roomName \in DOMAIN GuestCapacityPerType => guests <= GuestCapacityPerType[roomName]

\* MAX_ROOMS_PER_TYPE[room.name]: Absent when the type has no entry.
MaxRoomsForType(roomName) ==
  IF roomName \in DOMAIN MaxRoomsPerType THEN MaxRoomsPerType[roomName] ELSE Absent

\* validateNumberOfRoomsByType(numberOfRooms, room.name)
ValidateNumberOfRoomsByType(numberOfRooms, roomName) ==
  MaxRoomsForType(roomName) # Absent => numberOfRooms <= MaxRoomsForType(roomName)

\* requiredRooms = Math.ceil(guests / 3)
RequiredRooms(guests) == (guests + GuestsPerRoom - 1) \div GuestsPerRoom

\* Mutant: a type without an entry in MAX_ROOMS_PER_TYPE is given no room.
ExceedsMaxRoomsNoEntryIsZero(numberOfRooms, roomName) ==
  numberOfRooms > (IF MaxRoomsForType(roomName) = Absent THEN 0
                   ELSE MaxRoomsForType(roomName))

\* maxRoomsForType && numberOfRooms > maxRoomsForType
ExceedsMaxRooms(numberOfRooms, roomName) ==
  /\ MaxRoomsForType(roomName) # Absent
  /\ MaxRoomsForType(roomName) # 0
  /\ numberOfRooms > MaxRoomsForType(roomName)

\* createBooking from its first validation to its decision: the rules in the
\* order of the code, the first failing one answering; code 0 = go on to
\* BookingService.createBooking.
CreateBookingChecks(bks, req) ==
  IF ~ValidateGuestName(req.guestName)
    THEN Response("create", 400, "guest_name")
  ELSE IF ~ValidatePhoneNumber(req.guestPhone)
    THEN Response("create", 400, "phone")
  ELSE IF ~ValidateChildren(req.children, req.guests)
    THEN Response("create", 400, "children")
  ELSE IF Len(req.specialRequests) > 0 /\ ~ValidateSpecialRequests(req.specialRequests)
    THEN Response("create", 400, "special_requests")
  ELSE IF ~ValidateRoom(req.room).isValid
    THEN CreateAdmission(bks, req)
  ELSE
    LET roomName == RoomCatalog[req.room].name
    IN  IF ~ValidateGuestCapacityByRoomType(req.guests, roomName)
          THEN Response("create", 400, "capacity_exceeded")
        ELSE IF ~ValidateNumberOfRoomsByType(req.numberOfRooms, roomName)
          THEN Response("create", 400, "room_count_invalid")
        ELSE IF req.numberOfRooms < RequiredRooms(req.guests)
          THEN Response("create", 400, "insufficient_rooms")
        ELSE IF ExceedsMaxRooms(req.numberOfRooms, roomName)
          THEN Response("create", 400, "room_count_invalid")
        ELSE CreateAdmission(bks, req)

\* ------------------------------------------------------- BookingService
\* Number(x) || 0: an omitted amount is stored as 0.
NumberOrZero(x) == IF x = Absent THEN 0 ELSE x

\* createBooking: Booking.create with the price fields as the caller gave
\* them and status: data.status || 'confirmed'.
CreateBookingService(bks, id, data) ==
  [bks EXCEPT ![id] =
     [room |-> data.room, checkIn |-> data.checkIn, checkOut |-> data.checkOut,
      numberOfRooms |-> data.numberOfRooms, guests |-> data.guests,
      nights |-> data.nights, pricePerNight |-> data.pricePerNight,
      totalPrice |-> data.totalPrice,
      taxAmount |-> NumberOrZero(data.taxAmount),
      discountAmount |-> NumberOrZero(data.discountAmount),
      status |-> IF data.status = Null THEN "confirmed" ELSE data.status,
      cancelledAt |-> Absent, cancelledBy |-> Null, cancellationReason |-> Null]]

\* Booking.canBeCancelled (models/Booking): check-in at least 24 hours away.
CanBeCancelled(b, t) == b.checkIn * HoursPerDay - t >= CancelCutoffHours

\* Mutant: cancelBooking without the canBeCancelled test.
CancelBookingServiceNoCutoff(bks, id, userId, reason, t) ==
  IF bks[id] = NoBooking
    THEN [error |-> "Booking not found", bookings |-> bks]
  ELSE [error |-> Null,
        bookings |-> [bks EXCEPT ![id] =
           [@ EXCEPT !.status = "cancelled",
                     !.cancelledAt = t,
                     !.cancelledBy = IF userId # Null THEN userId ELSE @,
                     !.cancellationReason = IF reason # Null THEN reason ELSE @]]]

\* cancelBooking: findById, canBeCancelled, then the four assignments and save.
CancelBookingService(bks, id, userId, reason, t) ==
  IF bks[id] = NoBooking
    THEN [error |-> "Booking not found", bookings |-> bks]
  ELSE IF ~CanBeCancelled(bks[id], t)
    THEN [error |-> "Booking cannot be cancelled", bookings |-> bks]
  ELSE [error |-> Null,
        bookings |-> [bks EXCEPT ![id] =
           [@ EXCEPT !.status = "cancelled",
                     !.cancelledAt = t,
                     !.cancelledBy = IF userId # Null THEN userId ELSE @,
                     !.cancellationReason = IF reason # Null THEN reason ELSE @]]]

\* Mutant: deleteBooking refuses a reservation that is not cancelled.
DeleteBookingServiceCancelledOnly(bks, id) ==
  IF bks[id] = NoBooking \/ bks[id].status # "cancelled"
    THEN [error |-> "Booking not found", bookings |-> bks]
  ELSE [error |-> Null, bookings |-> [bks EXCEPT ![id] = NoBooking]]

\* deleteBooking: findById, then deleteOne.
DeleteBookingService(bks, id) ==
  IF bks[id] = NoBooking
    THEN [error |-> "Booking not found", bookings |-> bks]
  ELSE [error |-> Null, bookings |-> [bks EXCEPT ![id] = NoBooking]]

\* updateBooking: Booking.findByIdAndUpdate(bookingId, data): every field the
\* body carries is written as given.
UpdateBookingService(bks, id, data) ==
  IF bks[id] = NoBooking THEN bks
  ELSE [bks EXCEPT ![id] =
     [@ EXCEPT !.checkIn = IF data.checkIn # Absent THEN data.checkIn ELSE @,
               !.checkOut = IF data.checkOut # Absent THEN data.checkOut ELSE @,
               !.numberOfRooms = IF data.numberOfRooms # Absent THEN data.numberOfRooms ELSE @,
               !.guests = IF data.guests # Absent THEN data.guests ELSE @,
               !.totalPrice = IF data.totalPrice # Absent THEN data.totalPrice ELSE @,
               !.status = IF data.status # Null THEN data.status ELSE @]]

\* Mutant: updateBooking writes the body first and checks the dates afterwards.
UpdateBookingControllerWriteFirst(bks, id, body) ==
  IF bks[id] = NoBooking
    THEN [resp |-> Response("update", 404, "not_found"), bookings |-> bks]
  ELSE
    LET newCheckIn == IF body.checkIn # Absent THEN body.checkIn ELSE bks[id].checkIn
        newCheckOut == IF body.checkOut # Absent THEN body.checkOut ELSE bks[id].checkOut
    IN  IF /\ (body.checkIn # Absent \/ body.checkOut # Absent)
           /\ CheckBookingConflict(bks, bks[id].room, newCheckIn, newCheckOut, id)
          THEN [resp |-> Response("update", 400, "conflict"),
                bookings |-> UpdateBookingService(bks, id, body)]
        ELSE [resp |-> Response("update", 200, Null),
              bookings |-> UpdateBookingService(bks, id, body)]

\* ------------------------------------------------ updateBookingController
\* updateBooking: 404 when the id is unknown; the conflict check only when the
\* body carries checkIn or checkOut; then BookingService.updateBooking(id, body).
UpdateBookingController(bks, id, body) ==
  IF bks[id] = NoBooking
    THEN [resp |-> Response("update", 404, "not_found"), bookings |-> bks]
  ELSE
    LET newCheckIn == IF body.checkIn # Absent THEN body.checkIn ELSE bks[id].checkIn
        newCheckOut == IF body.checkOut # Absent THEN body.checkOut ELSE bks[id].checkOut
    IN  IF /\ (body.checkIn # Absent \/ body.checkOut # Absent)
           /\ CheckBookingConflict(bks, bks[id].room, newCheckIn, newCheckOut, id)
          THEN [resp |-> Response("update", 400, "conflict"), bookings |-> bks]
        ELSE [resp |-> Response("update", 200, Null),
              bookings |-> UpdateBookingService(bks, id, body)]

\* cancelBooking (controller): the service's error becomes 404 or 400.
CancelBookingController(bks, id, userId, reason, t) ==
  LET out == CancelBookingService(bks, id, userId, reason, t)
  IN  [resp |-> IF out.error = Null THEN Response("cancel", 200, Null)
                ELSE IF out.error = "Booking not found"
                  THEN Response("cancel", 404, "not_found")
                ELSE Response("cancel", 400, "not_cancellable"),
       bookings |-> out.bookings]

\* deleteBooking (controller)
DeleteBookingController(bks, id) ==
  LET out == DeleteBookingService(bks, id)
  IN  [resp |-> IF out.error = Null THEN Response("delete", 200, Null)
                ELSE Response("delete", 404, "not_found"),
       bookings |-> out.bookings]

\* ------------------------------------------------ api/index.ts: connectDB
\* The serverless entry: the cached connection attempt (connectionPromise),
\* mongoose.connection.readyState, the attempts made so far and the handler
\* invocations.  An attempt is the promise of one mongoose.connect call.
Invocations == {"h1", "h2", "h3"}
AttemptIds == 1..MaxAttempts
\* connectionPromise = null
NoPromise == 0

InitDb ==
  [readyState |-> "disconnected",
   connectionPromise |-> NoPromise,
   attempts |-> [a \in AttemptIds |-> "unused"],
   handlers |-> [h \in Invocations |->
                   [pc |-> "idle", awaits |-> NoPromise, answer |-> "none"]]]

\* The attempts whose mongoose.connect has not settled.
PendingAttempts(d) == {a \in AttemptIds : d.attempts[a] = "pending"}
UnusedAttempts(d) == {a \in AttemptIds : d.attempts[a] = "unused"}

\* connectDB up to its return: the connection itself when readyState is 1
\* (connected), the cached attempt when there is one, else a new attempt,
\* cached before mongoose.connect is awaited.
ConnectDB(d) ==
  IF d.readyState = "connected"
    THEN [db |-> d, awaits |-> NoPromise]
  ELSE IF d.connectionPromise # NoPromise
    THEN [db |-> d, awaits |-> d.connectionPromise]
  ELSE
    LET a == CHOOSE x \in UnusedAttempts(d) : \A y \in UnusedAttempts(d) : x <= y
    IN  [db |-> [d EXCEPT !.connectionPromise = a,
                          !.attempts[a] = "pending",
                          !.readyState = "connecting"],
         awaits |-> a]

\* handler: await connectDB(), then app(req, res).
HandlerInvoke(h) ==
  /\ db.handlers[h].pc # "waiting"
  /\ \/ db.readyState = "connected"
     \/ db.connectionPromise # NoPromise
     \/ UnusedAttempts(db) # {}
  /\ LET out == ConnectDB(db)
     IN  db' = [out.db EXCEPT !.handlers[h] =
                  IF out.awaits = NoPromise
                    THEN [pc |-> "done", awaits |-> NoPromise, answer |-> "ran"]
                  ELSE [pc |-> "waiting", awaits |-> out.awaits, answer |-> "none"]]
  /\ UNCHANGED <<bookings, nextId, now, inflight, resp, mail>>

\* The awaited attempt has settled: app(req, res) runs, or the catch answers
\* 503.
HandlerResume(h) ==
  /\ db.handlers[h].pc = "waiting"
  /\ db.attempts[db.handlers[h].awaits] \in {"resolved", "rejected"}
  /\ db' = [db EXCEPT !.handlers[h].pc = "done",
                      !.handlers[h].answer =
                         IF db.attempts[db.handlers[h].awaits] = "resolved"
                           THEN "ran" ELSE "503"]
  /\ UNCHANGED <<bookings, nextId, now, inflight, resp, mail>>

\* mongoose.connect resolves: readyState becomes 1 and 'connected' is emitted
\* (its listener only logs).
ConnectSucceeds(a) ==
  /\ db.attempts[a] = "pending"
  /\ db' = [db EXCEPT !.attempts[a] = "resolved", !.readyState = "connected"]
  /\ UNCHANGED <<bookings, nextId, now, inflight, resp, mail>>

\* mongoose.connect rejects: the catch clears connectionPromise and rethrows.
ConnectFails(a) ==
  /\ db.attempts[a] = "pending"
  /\ db' = [db EXCEPT !.attempts[a] = "rejected",
                      !.connectionPromise = NoPromise,
                      !.readyState =
                         IF @ = "connecting" /\ PendingAttempts(db) = {a}
                           THEN "disconnected" ELSE @]
  /\ UNCHANGED <<bookings, nextId, now, inflight, resp, mail>>

\* mongoose.connection.on('error'): connectionPromise = null.
ConnectionError ==
  /\ db.connectionPromise # NoPromise
  /\ db' = [db EXCEPT !.connectionPromise = NoPromise]
  /\ UNCHANGED <<bookings, nextId, now, inflight, resp, mail>>

\* mongoose.connection.on('disconnected'): the connection is lost and
\* connectionPromise = null.
ConnectionDisconnected ==
  /\ db.readyState = "connected"
  /\ db' = [db EXCEPT !.readyState = "disconnected", !.connectionPromise = NoPromise]
  /\ UNCHANGED <<bookings, nextId, now, inflight, resp, mail>>

\* ---------------------------------------------------------------- state
IdleClient == [pc |-> "idle", req |-> NoReq]

Init ==
  /\ bookings = [i \in BookingIds |-> NoBooking]
  /\ nextId = 1
  /\ now = 0
  /\ inflight = [c \in Clients |-> IdleClient]
  /\ resp = NoResp
  /\ mail = "none"
  /\ db = InitDb

AllIdle == \A c \in Clients : inflight[c].pc = "idle"

Inserting == {c \in Clients : inflight[c].pc = "inserting"}

\* Requests a client may send to POST /api/bookings.
AllCreateRequests ==
  [room : RequestRoomIds, checkIn : Days, checkOut : Days, numberOfRooms : RoomCounts]

\* The guest part of a request: counts, contact and free text.
GuestCounts == {1, 4, 7}
GuestEmails == {Null, "guest@example.com"}
GuestNames == {<<"R", "a", "j">>, <<"R", "4", "j">>}
GuestPhones == {<<"9", "8", "7", "6", "5", "4", "3", "2", "1", "0">>, <<"9", "8", "7">>}
ChildCounts == {0, 5}
SpecialTexts == {<< >>, <<"late", "arrival", "please">>}
GuestParts ==
  [guests : GuestCounts, guestEmail : GuestEmails, guestName : GuestNames,
   guestPhone : GuestPhones, children : ChildCounts, specialRequests : SpecialTexts]

\* One guest with a well-formed name, phone and e-mail, no child, no text.
DefaultGuest ==
  [guests |-> 1, guestEmail |-> "guest@example.com", guestName |-> <<"R", "a", "j">>,
   guestPhone |-> <<"9", "8", "7", "6", "5", "4", "3", "2", "1", "0">>,
   children |-> 0, specialRequests |-> << >>]

\* The price part of a request (nights, pricePerNight, totalPrice, taxAmount,
\* discountAmount) and the status it carries: here one Deluxe night at 12%
\* and no status.
DefaultPrice ==
  [nights |-> 1, pricePerNight |-> 3500, totalPrice |-> 3920, taxAmount |-> 420,
   discountAmount |-> 0, status |-> Null]

\* The requests of the default guest whose window is in order (checkIn before
\* checkOut).
CreateRequests ==
  {r @@ DefaultGuest @@ DefaultPrice :
     r \in {q \in AllCreateRequests : q.checkIn < q.checkOut}}

\* Any ordered window for the Deluxe type, one-night stays for the others.
StayRequests ==
  {r \in CreateRequests : r.room = "deluxe" \/ r.checkOut = r.checkIn + 1}

\* One-night, one-room requests for the Deluxe type.
OneNightRequests ==
  {r \in CreateRequests :
     r.room = "deluxe" /\ r.numberOfRooms = 1 /\ r.checkOut = r.checkIn + 1}

\* Requests of any guest part for a one-night or an empty window, with room
\* counts up to one more than the largest inventory.
ValidationRequests ==
  {r @@ g @@ DefaultPrice :
            r \in [room : BookableRoomIds, checkIn : {0, 1}, checkOut : {1},
                   numberOfRooms : RoomCounts \cup {Cardinality(RoomCounts) + 1}],
            g \in GuestParts}

\* What the handler keeps of a request for the write.
StayOf(req) ==
  [room |-> req.room, checkIn |-> req.checkIn, checkOut |-> req.checkOut,
   numberOfRooms |-> req.numberOfRooms, guests |-> req.guests,
   guestEmail |-> req.guestEmail,
   nights |-> req.nights, pricePerNight |-> req.pricePerNight,
   totalPrice |-> req.totalPrice, taxAmount |-> req.taxAmount,
   discountAmount |-> req.discountAmount, status |-> req.status]

\* Mutant: the status of the request is handed to the service.
CreateBookingDataRequestStatus(req) ==
  [room |-> req.room, checkIn |-> req.checkIn, checkOut |-> req.checkOut,
   numberOfRooms |-> req.numberOfRooms, guests |-> req.guests,
   nights |-> req.nights, pricePerNight |-> req.pricePerNight,
   totalPrice |-> req.totalPrice, taxAmount |-> req.taxAmount,
   discountAmount |-> req.discountAmount, status |-> req.status]

\* The record createBooking hands to BookingService.createBooking: the
\* request's own price fields, and status: 'confirmed'.
CreateBookingData(req) ==
  [room |-> req.room, checkIn |-> req.checkIn, checkOut |-> req.checkOut,
   numberOfRooms |-> req.numberOfRooms, guests |-> req.guests,
   nights |-> req.nights, pricePerNight |-> req.pricePerNight,
   totalPrice |-> req.totalPrice, taxAmount |-> req.taxAmount,
   discountAmount |-> req.discountAmount, status |-> "confirmed"]

\* What PATCH /api/bookings/:id/cancel may carry: req.user?.id and body.reason.
CancelInputs ==
  {[userId |-> Null, reason |-> Null], [userId |-> "admin", reason |-> "changed plans"]}
AdminCancel == {[userId |-> "admin", reason |-> Null]}

\* Bodies an administrator may send to PUT /api/bookings/:id.
UpdateBodies ==
  [checkIn : Days \cup {Absent}, checkOut : Days \cup {Absent},
   numberOfRooms : RoomCounts \cup {Absent}, guests : GuestCounts \cup {Absent},
   status : Statuses \cup {Null}, totalPrice : {Absent, 1}]

\* Bodies that carry no price field.
PlainBodies == {b \in UpdateBodies : b.totalPrice = Absent}

\* Bodies that change the check-out date or the room count only.
StayBodies ==
  {b \in PlainBodies : b.status = Null /\ b.checkIn = Absent /\ b.guests = Absent}

\* Bodies that change the status only.
StatusBodies ==
  {b \in PlainBodies :
     b.checkIn = Absent /\ b.checkOut = Absent /\ b.numberOfRooms = Absent
     /\ b.guests = Absent}

\* Bodies that change the guest count or the room count only.
GuestBodies ==
  {b \in PlainBodies : b.checkIn = Absent /\ b.checkOut = Absent /\ b.status = Null}

\* ---------------------------------------------------------------- actions
\* createBooking, first part: everything before `await BookingService.createBooking`.
\* A rejection answers at once; an admitted request goes on to the write.
\* Requests are taken while an id is left for them (at most MaxBookings ids).
CreateCheckReq(c, req) ==
  /\ inflight[c].pc = "idle"
  /\ nextId + Cardinality(Inserting) <= MaxBookings
  /\ LET out == CreateBookingChecks(bookings, req)
       IN  IF out.code = 0
             THEN /\ inflight' = [inflight EXCEPT ![c] = [pc |-> "inserting", req |-> StayOf(req)]]
                  /\ resp' = resp
             ELSE /\ inflight' = inflight
                  /\ resp' = out
  /\ UNCHANGED <<bookings, nextId, now, mail, db>>

CreateCheck(c, Reqs) == \E req \in Reqs : CreateCheckReq(c, req)

\* What the store does with Booking.create and the populate that follows it,
\* and what the mail transport does with the notification.
StoreOutcomes == {"ok", "ValidationError", "duplicate", "write_failed", "populate_failed"}
MailOutcomes == {"sent", "failed"}

\* Mutant: sendBookingNotification lets the transport's error through.
SendBookingNotificationRethrows(outcome) ==
  [threw |-> outcome = "failed", mail |-> outcome]

\* BookingService.sendBookingNotification: the transport's error is caught and
\* logged, never thrown.
SendBookingNotification(outcome) == [threw |-> FALSE, mail |-> outcome]

\* Mutant: the catch block answers every error with 201.
CreateBookingCatchReportsSuccess(error) == Response("create", 201, Null)

\* Mutant: the catch block answers every error as a validation error.
CreateBookingCatchAllValidation(error) == Response("create", 400, "validation_error")

\* The catch block of createBooking: 400 for a schema ValidationError, 400 for
\* a duplicate key (error.code 11000), 500 for anything else.
CreateBookingCatch(error) ==
  IF error = "ValidationError" THEN Response("create", 400, "validation_error")
  ELSE IF error = "duplicate" THEN Response("create", 400, "duplicate")
  ELSE Response("create", 500, "server_error")

\* createBooking, second part: BookingService.createBooking with status
\* 'confirmed' (guestEmail.trim() throws on a missing e-mail; Booking.create or
\* the populate after it may fail), then the notification, then the 201 answer;
\* any error goes to the catch block.
CreateInsertOutcome(c, store, sent) ==
  /\ inflight[c].pc = "inserting"
  /\ LET req == inflight[c].req
         written == CreateBookingService(bookings, nextId, CreateBookingData(req))
         note == SendBookingNotification(sent)
     IN  IF req.guestEmail = Null
           THEN /\ resp' = CreateBookingCatch("TypeError")
                /\ UNCHANGED <<bookings, nextId, mail>>
         ELSE IF store \in {"ValidationError", "duplicate", "write_failed"}
           THEN /\ resp' = CreateBookingCatch(store)
                /\ UNCHANGED <<bookings, nextId, mail>>
         ELSE IF store = "populate_failed"
           THEN /\ bookings' = written
                /\ nextId' = nextId + 1
                /\ resp' = CreateBookingCatch(store)
                /\ UNCHANGED mail
         ELSE /\ bookings' = written
              /\ nextId' = nextId + 1
              /\ mail' = note.mail
              /\ resp' = IF note.threw THEN CreateBookingCatch("mail")
                         ELSE Response("create", 201, Null)
  /\ inflight' = [inflight EXCEPT ![c] = IdleClient]
  /\ UNCHANGED <<now, db>>

\* The write and the notification both going well.
CreateInsert(c) == CreateInsertOutcome(c, "ok", "sent")

\* A create request whose store read fails: the connection of the handler
\* (503) or a query of the controller (Room.findById, Booking.find: 500).
CreateReadFails(c, kind) ==
  /\ inflight[c].pc = "idle"
  /\ resp' = IF kind = "connect" THEN Response("create", 503, "unavailable")
             ELSE CreateBookingCatch("read_failed")
  /\ UNCHANGED <<bookings, nextId, now, inflight, mail, db>>

\* PATCH /api/bookings/:id/cancel
CancelReq(id, in) ==
  LET out == CancelBookingController(bookings, id, in.userId, in.reason, now)
  IN  /\ bookings' = out.bookings
      /\ resp' = out.resp
      /\ UNCHANGED <<nextId, now, inflight, mail, db>>

Cancel(Inputs) == \E id \in BookingIds, in \in Inputs : CancelReq(id, in)

\* DELETE /api/bookings/:id
Delete ==
  \E id \in BookingIds :
    LET out == DeleteBookingController(bookings, id)
    IN  /\ bookings' = out.bookings
        /\ resp' = out.resp
        /\ UNCHANGED <<nextId, now, inflight, mail, db>>

\* PUT /api/bookings/:id
UpdateReq(id, body) ==
  LET out == UpdateBookingController(bookings, id, body)
  IN  /\ bookings' = out.bookings
      /\ resp' = out.resp
      /\ UNCHANGED <<nextId, now, inflight, mail, db>>

Update(Bodies) == \E id \in BookingIds, body \in Bodies : UpdateReq(id, body)

\* The process clock advances.
Tick ==
  /\ now < MaxTicks * TickHours
  /\ now' = now + TickHours
  /\ UNCHANGED <<bookings, nextId, inflight, resp, mail, db>>

\* One request at a time: a request starts only when none is in progress.
SeqCreateCheck == AllIdle /\ CreateCheck("c1", StayRequests)
SeqCreateInsert == CreateInsert("c1")
ClockCreateCheck == AllIdle /\ CreateCheck("c1", OneNightRequests)
SeqCancel == AllIdle /\ Cancel(AdminCancel)
SeqDelete == AllIdle /\ Delete

\* Sequential create / cancel / delete.
NextSeq == SeqCreateCheck \/ SeqCreateInsert \/ SeqCancel \/ SeqDelete
SpecSeq == Init /\ [][NextSeq]_vars

\* Concurrent create requests, with cancel and delete.
ConcCreateCheck == \E c \in Clients : CreateCheck(c, StayRequests)
ConcCreateInsert == \E c \in Clients : CreateInsert(c)
ConcCancel == Cancel(AdminCancel)
ConcDelete == Delete
Next == ConcCreateCheck \/ ConcCreateInsert \/ ConcCancel \/ ConcDelete
Spec == Init /\ [][Next]_vars

\* Sequential create / update of the stay window and the room count.
StayUpdate == AllIdle /\ Update(StayBodies)
NextUpd == ClockCreateCheck \/ SeqCreateInsert \/ StayUpdate
SpecUpd == Init /\ [][NextUpd]_vars

\* Sequential create / cancel / delete, with updates of the status.
StatusUpdate == AllIdle /\ Update(StatusBodies)
NextStatus == SeqCreateCheck \/ SeqCreateInsert \/ SeqCancel \/ SeqDelete \/ StatusUpdate
SpecStatus == Init /\ [][NextStatus]_vars

\* Sequential create with requests that break the field and policy rules.
ValCreateCheck == AllIdle /\ CreateCheck("c1", ValidationRequests)
NextVal == ValCreateCheck \/ SeqCreateInsert
SpecVal == Init /\ [][NextVal]_vars

\* The same, with updates of the guest count and the room count.
GuestUpdate == AllIdle /\ Update(GuestBodies)
NextGuests == ValCreateCheck \/ SeqCreateInsert \/ GuestUpdate
SpecGuests == Init /\ [][NextGuests]_vars

\* The same, with a store and a mail transport that may fail.
FailCreateInsert ==
  \E store \in StoreOutcomes, sent \in MailOutcomes : CreateInsertOutcome("c1", store, sent)
FailCreateRead == AllIdle /\ \E kind \in {"connect", "query"} : CreateReadFails("c1", kind)
NextFail == ValCreateCheck \/ FailCreateInsert \/ FailCreateRead
SpecFail == Init /\ [][NextFail]_vars

\* Sequential create / cancel with the clock running.
ClockCancel == AllIdle /\ Cancel(CancelInputs)
ClockTick == AllIdle /\ Tick
NextClock == ClockCreateCheck \/ SeqCreateInsert \/ ClockCancel \/ ClockTick
SpecClock == Init /\ [][NextClock]_vars

\* One-night Deluxe requests that carry a status other than confirmed, and
\* either the price of the preview or a price of the client's own.
ClientPrices ==
  {[nights |-> 1, pricePerNight |-> 3500, totalPrice |-> 3920, taxAmount |-> 420,
    discountAmount |-> 0],
   [nights |-> 1, pricePerNight |-> 1, totalPrice |-> 1, taxAmount |-> Absent,
    discountAmount |-> Absent]}
SnapRequests ==
  {[room |-> "deluxe", checkIn |-> d, checkOut |-> d + 1, numberOfRooms |-> 1]
     @@ DefaultGuest @@ q @@ [status |-> st] :
       d \in {e \in Days : e + 1 \in Days}, q \in ClientPrices,
       st \in {"pending", "cancelled"}}

\* Bodies that change the total price only.
PriceBodies ==
  {b \in UpdateBodies :
     b.checkIn = Absent /\ b.checkOut = Absent /\ b.numberOfRooms = Absent
     /\ b.guests = Absent /\ b.status = Null}

\* Sequential create / update / cancel with price fields and a status in the
\* requests.
SnapCreateCheck == AllIdle /\ CreateCheck("c1", SnapRequests)
SnapUpdate == AllIdle /\ Update(PriceBodies)
NextSnap == SnapCreateCheck \/ SeqCreateInsert \/ SnapUpdate \/ SeqCancel
SpecSnap == Init /\ [][NextSnap]_vars

\* Sequential create / delete of one-night Deluxe stays, with updates of the
\* status.
NextDel == ClockCreateCheck \/ SeqCreateInsert \/ StatusUpdate \/ SeqDelete
SpecDel == Init /\ [][NextDel]_vars

\* ---------------------------------------------------- BookingPricingService
\* Instants are hours; amounts are whole currency units; a tax rate is a
\* whole percentage (0.12 is 12).
DefaultTaxRatePct == 12

\* Math.ceil(a / b) for b > 0.
MathCeilDiv(a, b) == -((-a) \div b)
\* Math.round(a / b) for b > 0: the nearest integer, a half going up.
MathRoundDiv(a, b) == (2 * a + b) \div (2 * b)

CalculateNightsFloor(checkInDate, checkOutDate) ==
  (checkOutDate - checkInDate) \div HoursPerDay

CalculateNights(checkInDate, checkOutDate) ==
  LET timeDiff == checkOutDate - checkInDate
  IN  MathCeilDiv(timeDiff, HoursPerDay)

\* x || fallback on a number: 0 and undefined are both falsy.
OrElse(x, fallback) == IF x = Absent \/ x = 0 THEN fallback ELSE x

CalculatePricing(params) ==
  LET nights == CalculateNights(params.checkInDate, params.checkOutDate)
      basePrice == params.pricePerNight * nights
      discountAmount == OrElse(params.discountAmount, 0)
      priceAfterDiscount == basePrice - discountAmount
      taxRate == OrElse(params.taxRate, DefaultTaxRatePct)
      taxAmount == MathRoundDiv(priceAfterDiscount * taxRate, 100)
      totalPrice == priceAfterDiscount + taxAmount
  IN  [nights |-> nights, pricePerNight |-> params.pricePerNight,
       basePrice |-> basePrice, taxAmount |-> taxAmount,
       discountAmount |-> discountAmount, totalPrice |-> totalPrice]

\* Calls of the calculator: instants on a half-day grid, so that stays
\* shorter than a day, of exactly one day and of a day and a half all occur.
PricingInstants == {0, 6, 12, 24, 36, 48, 60}
PricingRates == {25, 3500}
PricingDiscounts == {Absent, 0, 10, 1000}
PricingTaxRates == {Absent, 0, 12, 18}
PricingParams ==
  [checkInDate : {0, 12}, checkOutDate : PricingInstants, pricePerNight : PricingRates,
   discountAmount : PricingDiscounts, taxRate : PricingTaxRates]

\* A caller holding its parameters, and the call itself.
InitPrice ==
  /\ bookings = [i \in BookingIds |-> NoBooking]
  /\ nextId = 1
  /\ now = 0
  /\ \E p \in PricingParams :
       inflight = [c \in Clients |-> IF c = "c1" THEN [pc |-> "pricing", req |-> p]
                                     ELSE IdleClient]
  /\ resp = NoResp
  /\ mail = "none"
  /\ db = InitDb

PriceQuote ==
  /\ inflight["c1"].pc = "pricing"
  /\ resp' = Response("pricing", 200, Null) @@ CalculatePricing(inflight["c1"].req)
  /\ inflight' = [inflight EXCEPT !["c1"].pc = "priced"]
  /\ UNCHANGED <<bookings, nextId, now, mail, db>>

NextPrice == PriceQuote
SpecPrice == InitPrice /\ [][NextPrice]_vars

\* ------------------------------------------------------ availability probes
\* The calendar day of the process clock.
Today == now \div HoursPerDay

\* The calendar reaches 30 days past its start date.
CalendarHorizon == 30

\* validateGuestCapacity
ValidateGuestCapacity(guests, roomCapacity) == ~(guests > roomCapacity)

\* validateDates: the window in order, then the check-in not before today.
ValidateDates(checkIn, checkOut, t) ==
  IF checkOut <= checkIn THEN "window"
  ELSE IF checkIn < t \div HoursPerDay THEN "past"
  ELSE Null

\* checkDateAvailability (GET /api/rooms/:id/check-dates): dates required,
\* the room found and enabled, the window in order, then Booking.findOne
\* with the overlap query; available = no booking found.
CheckDateAvailability(bks, roomId, checkInDate, checkOutDate) ==
  IF checkInDate = Absent \/ checkOutDate = Absent
    THEN Response("check_dates", 400, "missing_dates")
  ELSE IF roomId \notin BookableRoomIds
    THEN Response("check_dates", 404, "not_found")
  ELSE IF checkOutDate <= checkInDate
    THEN Response("check_dates", 400, "window")
  ELSE
    LET conflictingBooking ==
          {i \in Stored(bks) :
              /\ bks[i].room = roomId
              /\ IsActive(bks[i])
              /\ bks[i].checkIn < checkOutDate
              /\ bks[i].checkOut > checkInDate}
    IN  [available |-> conflictingBooking = {}] @@ Response("check_dates", 200, Null)

\* checkAvailability (POST /api/bookings/check-availability): required
\* fields, validateRoom (a disabled room answers 200 available: false),
\* validateGuestCapacity, validateDates, checkBookingConflict, and on a free
\* window the price of the stay at the room's rate.
CheckAvailabilityController(bks, req, t) ==
  IF req.room = Null \/ req.checkIn = Absent \/ req.checkOut = Absent
    THEN Response("check_availability", 400, "required_fields")
  ELSE
    LET rv == ValidateRoom(req.room)
    IN  IF ~rv.isValid /\ rv.statusCode = 404
          THEN Response("check_availability", 404, "not_found")
        ELSE IF ~rv.isValid
          THEN [available |-> FALSE] @@ Response("check_availability", 200, "room_unavailable")
        ELSE IF req.guests # Absent /\ req.guests # 0
                /\ ~ValidateGuestCapacity(req.guests, RoomCatalog[req.room].capacity)
          THEN Response("check_availability", 400, "capacity_exceeded")
        ELSE IF ValidateDates(req.checkIn, req.checkOut, t) # Null
          THEN Response("check_availability", 400, ValidateDates(req.checkIn, req.checkOut, t))
        ELSE IF CheckBookingConflict(bks, req.room, req.checkIn, req.checkOut, 0)
          THEN [available |-> FALSE] @@ Response("check_availability", 200, "conflict")
        ELSE [available |-> TRUE,
              pricing |-> CalculatePricing(
                 [checkInDate |-> req.checkIn * HoursPerDay,
                  checkOutDate |-> req.checkOut * HoursPerDay,
                  pricePerNight |-> RoomCatalog[req.room].price,
                  discountAmount |-> Absent, taxRate |-> Absent])]
               @@ Response("check_availability", 200, Null)

\* getRoomAvailability (GET /api/rooms/:id/availability and
\* /api/rooms/:id/availability-calendar): the room found and enabled; end =
\* start + 30 days; the pending or confirmed bookings of the room with
\* checkIn < end and checkOut > start; bookedDates = each of their days from
\* checkIn up to (not including) checkOut; one entry for each day d with
\* start <= d <= end.
GetRoomAvailability(bks, roomId, start) ==
  IF roomId \notin BookableRoomIds
    THEN Response("calendar", 404, "not_found")
  ELSE
    LET end == start + CalendarHorizon
        found == {i \in Stored(bks) :
                    /\ bks[i].room = roomId
                    /\ IsActive(bks[i])
                    /\ bks[i].checkIn < end
                    /\ bks[i].checkOut > start}
        bookedDates == UNION {bks[i].checkIn .. (bks[i].checkOut - 1) : i \in found}
        availability == [k \in 1..(end - start + 1) |->
                           [date |-> start + k - 1,
                            available |-> (start + k - 1) \notin bookedDates]]
    IN  [roomId |-> roomId, startDate |-> start, endDate |-> end,
         availability |-> availability]
          @@ Response("calendar", 200, Null)

\* POST /api/bookings/check-availability
CheckAvailability(Reqs) ==
  \E req \in Reqs :
    /\ resp' = CheckAvailabilityController(bookings, req, now)
    /\ UNCHANGED <<bookings, nextId, now, inflight, mail, db>>

\* GET /api/rooms/:id/check-dates
CheckDates ==
  \E roomId \in RequestRoomIds, checkInDate \in Days, checkOutDate \in Days :
    /\ resp' = CheckDateAvailability(bookings, roomId, checkInDate, checkOutDate)
    /\ UNCHANGED <<bookings, nextId, now, inflight, mail, db>>

\* GET /api/rooms/:id/availability with a start date of the caller's.
Calendar ==
  \E roomId \in RequestRoomIds, start \in Days :
    /\ resp' = GetRoomAvailability(bookings, roomId, start)
    /\ UNCHANGED <<bookings, nextId, now, inflight, mail, db>>

\* Requests for one night of the Deluxe type, one room or two.
ProbeRequests ==
  {r \in CreateRequests : r.room = "deluxe" /\ r.checkOut = r.checkIn + 1}

\* Sequential create / cancel with the three read-only probes.
ProbeCreateCheck == AllIdle /\ CreateCheck("c1", ProbeRequests)
ProbeCheckAvailability == AllIdle /\ CheckAvailability(ProbeRequests)
ProbeCheckDates == AllIdle /\ CheckDates
ProbeCalendar == AllIdle /\ Calendar
NextProbe ==
  \/ ProbeCreateCheck \/ SeqCreateInsert \/ SeqCancel
  \/ ProbeCheckAvailability \/ ProbeCheckDates \/ ProbeCalendar
SpecProbe == Init /\ [][NextProbe]_vars

\* Concurrent handler invocations, connection attempts and connection events.
ConnInvoke == \E h \in Invocations : HandlerInvoke(h)
ConnResume == \E h \in Invocations : HandlerResume(h)
ConnSucceeds == \E a \in AttemptIds : ConnectSucceeds(a)
ConnFails == \E a \in AttemptIds : ConnectFails(a)
NextConn ==
  \/ ConnInvoke \/ ConnResume \/ ConnSucceeds \/ ConnFails
  \/ ConnectionError \/ ConnectionDisconnected
SpecConn == Init /\ [][NextConn]_vars

\* ---------------------------------------------------------------- claims
\* Rooms committed on night d for a room type: the rooms of the pending or
\* confirmed reservations whose window [checkIn, checkOut) covers d.
Committed(bks, roomId, d) ==
  SumOver(bks, {i \in Stored(bks) : bks[i].room = roomId /\ IsActive(bks[i])}, d)

\* Peak occupancy of the window [from, to): the largest committed-room count
\* over the nights of the window, and of no other night.
PeakOccupancy(bks, roomId, from, to) ==
  IF from >= to THEN 0
  ELSE SetMax({Committed(bks, roomId, d) : d \in from..(to - 1)})

Covers(b, d) == b.checkIn <= d /\ d < b.checkOut

SharesNight(b, from, to) == \E d \in Days : Covers(b, d) /\ from <= d /\ d < to

\* C1: one request at a time (create, cancel, delete): on every night, for every
\* room type, the rooms of the pending/confirmed reservations covering the
\* night are at most the type's totalRooms.
C1_NoOversellSequential ==
  \A r \in RoomIds : \A d \in Days :
    Committed(bookings, r, d) <= RoomCatalog[r].totalRooms

\* C1 witness: a night at full capacity that a cancelled reservation also covers
\* (a create filled the rooms a cancel had freed).
C1_Witness ==
  \E r \in BookableRoomIds, d \in Days, i \in Stored(bookings) :
    /\ Committed(bookings, r, d) = RoomCatalog[r].totalRooms
    /\ bookings[i].room = r
    /\ bookings[i].status = "cancelled"
    /\ Covers(bookings[i], d)

\* C2: with concurrent create requests the per-night committed rooms never
\* exceed totalRooms (read, decision and insert behave as one atomic unit).
C2_NoOversellConcurrent ==
  \A r \in BookableRoomIds :
    \A d \in Days : ~(Committed(bookings, r, d) > RoomCatalog[r].totalRooms)

\* C3: on every reachable store, a create request for a bookable room type
\* with an ordered window is admitted if and only if requestedRooms <=
\* availableRooms = totalRooms - peak occupancy of the requested window, and a
\* rejection reports exactly that availableRooms.
C3_AdmissionDecision ==
  \A r \in BookableRoomIds : \A from \in Days : \A to \in Days :
    from < to =>
      LET avail == RoomCatalog[r].totalRooms - PeakOccupancy(bookings, r, from, to)
      IN  \A n \in RoomCounts :
            LET out == CreateAdmission(bookings,
                         [room |-> r, checkIn |-> from, checkOut |-> to,
                          numberOfRooms |-> n])
            IN  /\ (out.code = 0) <=> (n <= avail)
                /\ (out.code # 0) =>
                     /\ out.code = 400 /\ out.error = "conflict"
                     /\ out.availableRooms = avail
                     /\ out.requestedRooms = n

\* C3 witness: the Deluxe type has 2 rooms, one is held, a request for 2 rooms
\* was rejected with availableRooms = 1.
C3_Witness ==
  /\ resp.op = "create" /\ resp.error = "conflict"
  /\ resp.availableRooms = 1 /\ resp.requestedRooms = 2
  /\ \E i \in Stored(bookings) :
       /\ bookings[i].room = "deluxe" /\ IsActive(bookings[i])
       /\ bookings[i].numberOfRooms = 1

\* C4: for every room type and every window [from, to), the peak that create
\* computes (maxBookedRooms) is the largest committed-room count over the
\* nights of [from, to) only; nights outside the window never raise it.
C4_PeakClippedToWindow ==
  \A r \in BookableRoomIds : \A from \in Days : \A to \in Days :
    from < to =>
      MaxBookedRooms(bookings, ExistingBookings(bookings, r, from, to))
        = PeakOccupancy(bookings, r, from, to)

\* C4 witness: a create was answered while a stored reservation overlaps a
\* window and also holds rooms on a night outside that window.
C4_Witness ==
  /\ resp.op = "create" /\ resp.error = "conflict"
  /\ \E i \in Stored(bookings), from \in Days, to \in Days, d \in Days :
       /\ from < to /\ IsActive(bookings[i])
       /\ SharesNight(bookings[i], from, to)
       /\ Covers(bookings[i], d) /\ (d < from \/ d >= to)

\* C5: check-out is exclusive: on every reachable store, a request that shares
\* no night with any pending/confirmed reservation of its room type (its
\* checkIn is at or after their checkOut, or its checkOut at or before their
\* checkIn) and asks for no more than totalRooms is admitted, whatever those
\* reservations hold on their own nights.
C5_CheckoutExclusive ==
  \A r \in BookableRoomIds : \A from \in Days : \A to \in Days :
    ( /\ from < to
      /\ \A i \in Stored(bookings) :
           (bookings[i].room = r /\ IsActive(bookings[i])) =>
             (bookings[i].checkOut <= from \/ bookings[i].checkIn >= to) )
    => \A n \in 1..RoomCatalog[r].totalRooms :
         CreateAdmission(bookings,
           [room |-> r, checkIn |-> from, checkOut |-> to, numberOfRooms |-> n]).code = 0

\* C5 witness: a reservation holds every room of its type, and a second one,
\* stored after it, checks in on the first one's check-out day.
C5_Witness ==
  \E i \in Stored(bookings), j \in Stored(bookings) :
    /\ i < j
    /\ bookings[i].room = bookings[j].room
    /\ IsActive(bookings[i]) /\ IsActive(bookings[j])
    /\ bookings[i].numberOfRooms = RoomCatalog[bookings[i].room].totalRooms
    /\ bookings[j].checkIn = bookings[i].checkOut

\* Reservation i counts in some occupancy computation over the store bks: the
\* query of create (ExistingBookings) or of the existence check
\* (checkBookingConflict) returns it for some room type and window.
CountsInOccupancy(bks, i) ==
  \E r \in RoomIds, from \in Days, to \in Days :
    \/ i \in ExistingBookings(bks, r, from, to)
    \/ i \in ConflictQuery(bks, r, from, to, 0)

\* C6: a stored reservation counts in the occupancy computations only while
\* its status is pending or confirmed, and once it has been cancelled it is
\* excluded from every later occupancy computation.
C6_CancelledStaysExcluded ==
  [][\A i \in BookingIds :
       /\ CountsInOccupancy(bookings, i) => IsActive(bookings[i])
       /\ bookings[i].status = "cancelled" => ~CountsInOccupancy(bookings', i)]_vars

\* C7: cancelling a stored reservation whose check-in is less than 24 hours
\* after `now` answers not_cancellable and leaves the reservation (status,
\* cancelledAt, cancelledBy, cancellationReason) and the store unchanged; with
\* the check-in at least 24 hours away it answers 200 and sets status cancelled.
C7_CancellationCutoff ==
  [][\A id \in BookingIds : \A in \in CancelInputs :
       (CancelReq(id, in) /\ bookings[id] # NoBooking) =>
         IF bookings[id].checkIn * HoursPerDay - now < CancelCutoffHours
           THEN /\ resp'.code = 400 /\ resp'.error = "not_cancellable"
                /\ bookings'[id].status = bookings[id].status
                /\ bookings'[id].cancelledAt = bookings[id].cancelledAt
                /\ bookings'[id].cancelledBy = bookings[id].cancelledBy
                /\ bookings'[id].cancellationReason = bookings[id].cancellationReason
                /\ bookings' = bookings
           ELSE /\ resp'.code = 200
                /\ bookings'[id].status = "cancelled"]_vars

\* C7 witness: a cancel was answered not_cancellable while a confirmed
\* reservation checks in less than 24 hours from now, and another reservation
\* has been cancelled.
C7_Witness ==
  /\ resp.op = "cancel" /\ resp.error = "not_cancellable"
  /\ \E i \in Stored(bookings) :
       /\ bookings[i].status = "confirmed"
       /\ bookings[i].checkIn * HoursPerDay - now < CancelCutoffHours
  /\ \E j \in Stored(bookings) : bookings[j].status = "cancelled"

\* C8: a reservation becomes cancelled only by the cancel operation, and a
\* cancelled reservation stays cancelled until it is deleted.
C8_CancelledTerminal ==
  [][\A i \in BookingIds :
       /\ (bookings[i].status # "cancelled" /\ bookings'[i].status = "cancelled")
            => resp'.op = "cancel"
       /\ bookings[i].status = "cancelled"
            => (bookings'[i] = NoBooking \/ bookings'[i].status = "cancelled")]_vars

\* C9: after any sequence of creates and updates (of the stay window or the
\* room count), the rooms committed on a night never exceed totalRooms.
C9_NoOversellAfterUpdate ==
  \A d \in Days : \A r \in RoomIds :
    RoomCatalog[r].totalRooms >= Committed(bookings, r, d)

\* The re-check of an update fails: the body carries a date and another
\* pending/confirmed reservation of the room type overlaps the new window.
RecheckFails(bks, id, body) ==
  /\ body.checkIn # Absent \/ body.checkOut # Absent
  /\ LET from == IF body.checkIn # Absent THEN body.checkIn ELSE bks[id].checkIn
         to == IF body.checkOut # Absent THEN body.checkOut ELSE bks[id].checkOut
     IN  \E j \in Stored(bks) \ {id} :
           /\ bks[j].room = bks[id].room
           /\ bks[j].status \in {"pending", "confirmed"}
           /\ bks[j].checkIn < to /\ from < bks[j].checkOut

\* C10: an update of an unknown id, or one whose re-check fails, is refused by
\* the handler with the store as it was, and every update step that answers
\* with a refusal changes no field of any stored reservation.
C10_FailedUpdateAtomic ==
  /\ [](\A id \in BookingIds : \A body \in StayBodies :
          (bookings[id] = NoBooking \/ RecheckFails(bookings, id, body))
          => LET out == UpdateBookingController(bookings, id, body)
             IN  /\ out.resp.op = "update" /\ out.resp.code \in {400, 404}
                 /\ out.bookings = bookings)
  /\ [][(inflight' = inflight /\ resp'.op = "update" /\ resp'.code # 200)
          => bookings' = bookings]_vars

\* C10 witness: an update was refused for a conflict while two reservations
\* are stored.
C10_Witness ==
  /\ resp.op = "update" /\ resp.code = 400 /\ resp.error = "conflict"
  /\ Cardinality(Stored(bookings)) = 2

\* Rooms held on day d by the pending/confirmed bookings of the room type of
\* booking id, booking id itself left out.
OthersCommitted(bks, id, d) ==
  SumOver(bks, {j \in Stored(bks) \ {id} :
                  bks[j].room = bks[id].room /\ IsActive(bks[j])}, d)

\* C11: an update of the check-out date or the room count succeeds whenever,
\* on every night of the new window, the rooms of the other pending/confirmed
\* reservations plus the new room count stay within totalRooms.
C11_UpdateAdmittedWhenInventorySuffices ==
  \A id \in Stored(bookings) : \A body \in StayBodies :
    LET to == IF body.checkOut # Absent THEN body.checkOut ELSE bookings[id].checkOut
        n == IF body.numberOfRooms # Absent THEN body.numberOfRooms
             ELSE bookings[id].numberOfRooms
    IN  ( /\ bookings[id].checkIn < to
          /\ \A d \in bookings[id].checkIn..(to - 1) :
                OthersCommitted(bookings, id, d) + n
                  <= RoomCatalog[bookings[id].room].totalRooms )
        => UpdateBookingController(bookings, id, body).resp.code = 200

\* C13: every stored reservation has its check-out after its check-in.
C13_WindowOrdered ==
  \A i \in Stored(bookings) : bookings[i].checkOut > bookings[i].checkIn

\* The earliest failing rule of a creation request in the order: required
\* fields, guest name, phone, children, special requests, dates, guest
\* capacity, maximum rooms of the type, rooms for the guest count.
FirstFailingRule(req) ==
  LET roomName == RoomCatalog[req.room].name
  IN  IF req.guestEmail = Null THEN "missing_field"
      ELSE IF ~ValidateGuestName(req.guestName) THEN "guest_name"
      ELSE IF ~ValidatePhoneNumber(req.guestPhone) THEN "phone"
      ELSE IF ~ValidateChildren(req.children, req.guests) THEN "children"
      ELSE IF ~ValidateSpecialRequests(req.specialRequests) THEN "special_requests"
      ELSE IF ~(req.checkOut > req.checkIn) THEN "invalid_date_range"
      ELSE IF req.checkIn < Today THEN "past_date"
      ELSE IF ~ValidateGuestCapacityByRoomType(req.guests, roomName)
        THEN "capacity_exceeded"
      ELSE IF ~ValidateNumberOfRoomsByType(req.numberOfRooms, roomName)
        THEN "room_count_invalid"
      ELSE IF req.numberOfRooms < RequiredRooms(req.guests) THEN "insufficient_rooms"
      ELSE "none"

\* C12: a creation request that breaks one or more rules is answered with the
\* failure of the earliest rule it breaks, in the fixed order of the nine rules.
C12_ValidationOrder ==
  [][\A req \in ValidationRequests :
       (CreateCheckReq("c1", req) /\ FirstFailingRule(req) # "none")
         => /\ resp'.op = "create"
            /\ resp'.error = FirstFailingRule(req)
            /\ inflight' = inflight]_vars

\* C14: a create request whose check-in day is before today is refused with a
\* past-date error and does not go on to the write.
C14_NoPastCheckIn ==
  [][\A req \in OneNightRequests :
       (CreateCheckReq("c1", req) /\ req.checkIn < Today)
         => /\ resp'.op = "create" /\ resp'.code = 400
            /\ resp'.error = "past_date"
            /\ inflight' = inflight]_vars

\* C15: every stored reservation has at least ceil(guests / 3) rooms.
C15_RoomsForGuests ==
  \A i \in Stored(bookings) :
    bookings[i].numberOfRooms >= RequiredRooms(bookings[i].guests)

\* The requests that pass every rule placed before the room-count rules: name,
\* phone, children, special requests and guest capacity.
CapRequests ==
  {req \in ValidationRequests :
     /\ ValidateGuestName(req.guestName)
     /\ ValidatePhoneNumber(req.guestPhone)
     /\ ValidateChildren(req.children, req.guests)
     /\ ValidateSpecialRequests(req.specialRequests)
     /\ ValidateGuestCapacityByRoomType(req.guests, RoomCatalog[req.room].name)}

\* C16: a create request asking for more rooms than the maximum configured for
\* its room type is refused with room_count_invalid, and a request for a type
\* without a configured maximum is never refused with room_count_invalid.
C16_PerTypeRoomCap ==
  \A req \in CapRequests :
    LET out == CreateBookingChecks(bookings, req)
        cap == MaxRoomsForType(RoomCatalog[req.room].name)
    IN  /\ (cap # Absent /\ req.numberOfRooms > cap)
             => (out.code = 400 /\ out.error = "room_count_invalid")
        /\ cap = Absent => out.error # "room_count_invalid"

\* C16 witness: a create request was refused for its room count, and a
\* reservation of the type without a maximum is stored.
C16_Witness ==
  /\ resp.op = "create" /\ resp.error = "room_count_invalid"
  /\ \E i \in Stored(bookings) :
       MaxRoomsForType(RoomCatalog[bookings[i].room].name) = Absent

\* The rejections of a create request: field and policy validation, room
\* lookup, capacity, room count and conflict.
RejectionErrors ==
  {"guest_name", "phone", "children", "special_requests", "validation_error",
   "not_found", "room_unavailable", "capacity_exceeded", "room_count_invalid",
   "insufficient_rooms", "conflict"}

\* C17: a create step that ends in a validation, not_found, capacity,
\* room-count or conflict rejection leaves the stored reservations as they
\* were; a step that changes them answers success or a server error.
C17_RejectionsPrecedeWrites ==
  [][/\ (resp'.op = "create" /\ resp'.error \in RejectionErrors)
          => bookings' = bookings
     /\ bookings' # bookings
          => (resp'.op = "create" /\ resp'.code \in {201, 500})]_vars

\* C17 witness: a create request was refused for its guest capacity while a
\* reservation is stored.
C17_Witness ==
  /\ resp.op = "create" /\ resp.error = "capacity_exceeded"
  /\ Stored(bookings) # {}

\* C18: when the notification fails after the reservation was written, the
\* create request still answers 201 and the reservation is stored as confirmed.
C18_NotificationNonFatal ==
  [][(CreateInsertOutcome("c1", "ok", "failed") /\ inflight["c1"].req.guestEmail # Null)
       => /\ resp'.code = 201
          /\ mail' = "failed"
          /\ bookings'[nextId] # NoBooking
          /\ bookings'[nextId].status = "confirmed"]_vars

\* C18 witness: the last create answered 201 although its notification failed.
C18_Witness ==
  /\ mail = "failed" /\ resp.op = "create" /\ resp.code = 201
  /\ \E i \in Stored(bookings) : bookings[i].status = "confirmed"

\* C19: a collision on the booking reference is never answered to the caller
\* as a duplicate error.
C19_DuplicateNeverSurfaced ==
  ~(resp.op = "create" /\ resp.error = "duplicate")

\* C20: a create request whose store read or write fails answers 500 or 503
\* (never 201, never a validation or conflict answer), and a create request
\* answers 201 only in the step that stores its reservation.
C20_StoreFailureNotSilent ==
  [][/\ \A kind \in {"connect", "query"} :
          CreateReadFails("c1", kind)
            => (resp'.code \in {500, 503} /\ bookings' = bookings)
     /\ \A store \in {"write_failed", "populate_failed"} :
          (CreateInsertOutcome("c1", store, "sent") /\ inflight["c1"].req.guestEmail # Null)
            => (resp'.code = 500 /\ resp'.error \notin RejectionErrors)
     /\ (inflight["c1"].pc = "inserting" /\ resp'.code = 201)
          => (bookings[nextId] = NoBooking /\ bookings'[nextId] # NoBooking)]_vars

\* C20 witness: a create request was answered with a server error after an
\* earlier one had been stored.
C20_Witness ==
  /\ resp.op = "create" /\ resp.code = 500
  /\ Stored(bookings) # {}

\* C21: the night count is the elapsed time divided by one day, rounded up:
\* the least n with n days >= the elapsed time.  A check-out after the
\* check-in gives at least one night, also when less than a day apart, and
\* exactly one day apart gives exactly one night.
C21_NightsRoundedUp ==
  resp.op = "pricing" =>
    LET p == inflight["c1"].req
        elapsed == p.checkOutDate - p.checkInDate
    IN  /\ resp.nights * HoursPerDay >= elapsed
        /\ (resp.nights - 1) * HoursPerDay < elapsed
        /\ (elapsed > 0 => resp.nights >= 1)
        /\ (elapsed = HoursPerDay => resp.nights = 1)
C21_Witness ==
  /\ resp.op = "pricing"
  /\ inflight["c1"].req.checkOutDate - inflight["c1"].req.checkInDate = 12
  /\ resp.nights = 1

\* C22: for every nightly rate, stay, discount and tax rate the breakdown is
\* basePrice = rate * nights, taxAmount = (basePrice - discount) * taxRate
\* rounded to the nearest unit with a half going up, and totalPrice =
\* (basePrice - discount) + taxAmount; an omitted discount is 0 and an
\* omitted tax rate is the 12% default.
C22_PriceBreakdown ==
  resp.op = "pricing" =>
    LET p == inflight["c1"].req
        discount == IF p.discountAmount = Absent THEN 0 ELSE p.discountAmount
        rate == IF p.taxRate = Absent THEN DefaultTaxRatePct ELSE p.taxRate
        after == resp.basePrice - discount
    IN  /\ resp.basePrice = p.pricePerNight * resp.nights
        /\ 2 * 100 * resp.taxAmount - 100 <= 2 * after * rate
        /\ 2 * after * rate < 2 * 100 * resp.taxAmount + 100
        /\ resp.totalPrice = after + resp.taxAmount

\* The price fields of a stored reservation.
PriceSnapshot(b) ==
  [nights |-> b.nights, pricePerNight |-> b.pricePerNight,
   discountAmount |-> b.discountAmount, taxAmount |-> b.taxAmount,
   totalPrice |-> b.totalPrice]

\* C23: once a reservation is stored its nights, pricePerNight,
\* discountAmount, taxAmount and totalPrice never change: no update and no
\* cancellation alters them.
C23_PricingSnapshotFrozen ==
  [][\A id \in BookingIds :
       (bookings[id] # NoBooking /\ bookings'[id] # NoBooking)
         => PriceSnapshot(bookings'[id]) = PriceSnapshot(bookings[id])]_vars

\* C24: every reservation the create operation stores has status confirmed,
\* whatever status the request carried.
C24_AutoConfirmed ==
  [][\A id \in BookingIds :
       (bookings[id] = NoBooking /\ bookings'[id] # NoBooking)
         => bookings'[id].status = "confirmed"]_vars
C24_Witness ==
  /\ resp.op = "create" /\ resp.code = 201
  /\ \A r \in SnapRequests : r.status \in {"pending", "cancelled"}
  /\ \E id \in BookingIds : bookings[id] # NoBooking /\ bookings[id].status = "confirmed"

\* C29: the price stored with a reservation is the one the pricing calculator
\* gives for the stored window and the catalog rate of the room type; no
\* price value supplied by the client makes the stored snapshot differ.
C29_StoredPriceFromCalculator ==
  [][\A id \in BookingIds :
       (bookings[id] = NoBooking /\ bookings'[id] # NoBooking) =>
         LET b == bookings'[id]
             q == CalculatePricing([checkInDate |-> b.checkIn * HoursPerDay,
                                    checkOutDate |-> b.checkOut * HoursPerDay,
                                    pricePerNight |-> RoomCatalog[b.room].price,
                                    discountAmount |-> b.discountAmount,
                                    taxRate |-> Absent])
         IN  /\ b.nights = q.nights
             /\ b.pricePerNight = q.pricePerNight
             /\ b.taxAmount = q.taxAmount
             /\ b.totalPrice = q.totalPrice]_vars

\* C25: deletion removes a stored reservation whatever its status and however
\* close its check-in: the answer is 200, the reservation is gone, no other
\* reservation changes and its rooms no longer count on any night.  A deleted
\* reservation never reappears.  Deleting an unknown id answers 404 and
\* leaves the store as it was.
C25_DeleteUnconditional ==
  /\ [](\A id \in BookingIds :
          LET out == DeleteBookingController(bookings, id)
          IN  IF bookings[id] # NoBooking
                THEN /\ out.resp.code = 200
                     /\ out.bookings[id] = NoBooking
                     /\ \A j \in BookingIds \ {id} : out.bookings[j] = bookings[j]
                     /\ \A r \in BookableRoomIds, d \in Days :
                          Committed(out.bookings, r, d) =
                            Committed(bookings, r, d)
                              - (IF IsActive(bookings[id]) /\ bookings[id].room = r
                                    /\ Covers(bookings[id], d)
                                 THEN bookings[id].numberOfRooms ELSE 0)
              ELSE out.resp.code = 404 /\ out.bookings = bookings)
  /\ [][/\ \A id \in BookingIds :
             (id < nextId /\ bookings[id] = NoBooking) => bookings'[id] = NoBooking
        /\ (resp'.op = "delete" /\ resp'.code # 200 /\ inflight' = inflight)
             => bookings' = bookings]_vars
C25_Witness ==
  /\ resp.op = "delete" /\ resp.code = 200
  /\ \E id \in BookingIds : id < nextId /\ bookings[id] = NoBooking
  /\ \E id \in BookingIds : bookings[id] # NoBooking /\ bookings[id].status = "pending"

\* The reservations that block a room for a window: those of the room, other
\* than the excluded one, that are pending or confirmed and overlap it.
Blocking(bks, roomId, from, to, excludeId) ==
  \E i \in BookingIds :
    /\ bks[i] # NoBooking /\ i # excludeId
    /\ bks[i].room = roomId
    /\ bks[i].status \in {"pending", "confirmed"}
    /\ bks[i].checkIn < to /\ bks[i].checkOut > from

\* C26: for every room, window and optional excluded reservation the
\* single-room check reports a conflict exactly when some other pending or
\* confirmed reservation of the room has checkIn < to and checkOut > from,
\* whatever the inventory of the room type and the room count of the
\* reservation; the check-dates probe answers available exactly when there
\* is none.
C26_SingleRoomCheck ==
  \A r \in RoomIds, from \in Days, to \in Days :
    /\ \A x \in {0} \cup BookingIds :
         CheckBookingConflict(bookings, r, from, to, x) <=> Blocking(bookings, r, from, to, x)
    /\ (r \in BookableRoomIds /\ from < to) =>
         LET out == CheckDateAvailability(bookings, r, from, to)
         IN  out.code = 200 /\ (out.available <=> ~Blocking(bookings, r, from, to, 0))
C26_Witness ==
  /\ resp.op = "check_dates" /\ resp.code = 200 /\ ~resp.available
  /\ \E i \in BookingIds :
       /\ bookings[i] # NoBooking /\ bookings[i].room = "deluxe"
       /\ bookings[i].numberOfRooms = 1 /\ IsActive(bookings[i])
       /\ CheckBookingConflict(bookings, "deluxe", bookings[i].checkIn, bookings[i].checkOut, 0)
       /\ ~CheckBookingConflict(bookings, "deluxe", bookings[i].checkIn, bookings[i].checkOut, i)

\* C27: the calendar of a room is exactly the 30 consecutive days that begin
\* at the start date, and each day d of it is marked available exactly when
\* no pending or confirmed reservation of the room blocks the one-night
\* window [d, d+1).
C27_CalendarThirtyDays ==
  (resp.op = "calendar" /\ resp.code = 200) =>
    /\ Len(resp.availability) = 30
    /\ \A k \in 1..Len(resp.availability) :
         /\ resp.availability[k].date = resp.startDate + k - 1
         /\ resp.availability[k].available
              <=> ~Blocking(bookings, resp.roomId, resp.availability[k].date,
                            resp.availability[k].date + 1, 0)

\* The inventory-aware check of createBooking admits a one-room request.
AdmitsOneRoom(bks, roomId, from, to) == Admits(AvailableRooms(bks, roomId, from, to), 1)

\* C28 as stated: the single-room check is the less strict one: whenever the
\* inventory-aware check admits a one-room request for a window, the
\* single-room check reports the window free.
C28_SingleRoomLessStrict ==
  \A r \in BookableRoomIds, from \in Days, to \in Days :
    (from < to /\ AdmitsOneRoom(bookings, r, from, to))
      => ~CheckBookingConflict(bookings, r, from, to, 0)

\* C28 amended: the single-room check is the stricter one: whenever it
\* reports a window of a bookable room type free, the inventory-aware check
\* admits a one-room request for that window.
C28_SingleRoomStricter ==
  \A r \in BookableRoomIds, from \in Days, to \in Days :
    (from < to /\ ~CheckBookingConflict(bookings, r, from, to, 0))
      => AdmitsOneRoom(bookings, r, from, to)
C28_Witness ==
  /\ resp.op = "check_availability" /\ resp.code = 200 /\ resp.available
  /\ \E i \in BookingIds : bookings[i] # NoBooking /\ IsActive(bookings[i])
  /\ \E from \in Days, to \in Days :
       /\ from < to
       /\ ~CheckBookingConflict(bookings, "deluxe", from, to, 0)
       /\ AdmitsOneRoom(bookings, "deluxe", from, to)

\* C30: under any interleaving of handler invocations and connection events
\* at most one connection attempt is in flight; an invocation that arrives
\* while an attempt is in flight waits on that attempt and starts no other;
\* a failing attempt clears the cached attempt; and an invocation whose
\* attempt failed answers 503 without running the request.
C30_SingleFlight ==
  /\ [](/\ Cardinality(PendingAttempts(db)) <= 1
        /\ \A h \in Invocations :
             (db.handlers[h].pc = "done" /\ db.handlers[h].awaits # NoPromise
              /\ db.attempts[db.handlers[h].awaits] = "rejected")
               => db.handlers[h].answer = "503")
  /\ [][/\ \A h \in Invocations :
             (db.handlers[h].pc # "waiting" /\ db'.handlers[h].pc = "waiting"
              /\ PendingAttempts(db) # {})
               => /\ db'.handlers[h].awaits \in PendingAttempts(db)
                  /\ PendingAttempts(db') = PendingAttempts(db)
        /\ \A a \in AttemptIds :
             (db.attempts[a] = "pending" /\ db'.attempts[a] = "rejected")
               => db'.connectionPromise = NoPromise]_vars

====
